---- MODULE Spec2Model ----
(***************************************************************************)
(* Model of ATCNP2.py: the diet problem solved with scipy.optimize.linprog. *)
(*                                                                         *)
(* One run of the script is a pipeline                                     *)
(*   carregar_dados_csv -> resolver_problema_dieta_scipy                   *)
(*       (formulate -> linprog -> report)                                  *)
(* wrapped in the try/except of the __main__ block.                        *)
(*                                                                         *)
(* Numbers.  Every quantity is an integer number of ticks, one tick being  *)
(* the 1e-6 the code uses as its tolerance (Tol).  Prices and nutrient     *)
(* contents are integer multipliers, so cost and achieved totals are again *)
(* in ticks.                                                               *)
(*                                                                         *)
(* Text.  A text (column header, food name, nutrient name, unit label) is  *)
(* a sequence of tokens; the token SP is one whitespace character and any  *)
(* other token is a block of non-blank characters.                         *)
(*                                                                         *)
(* Cells.  A cell of a table is a record [k, n, s]: k = "num" a number n,  *)
(* k = "nan" an empty cell (pandas NaN), k = "str" a text s.               *)
(*                                                                         *)
(* Inputs.  The food tables considered have headers that stay distinct     *)
(* once trimmed; both tables have at least one row.  linprog is outside    *)
(* the repository: it may return any status, and with status 0 any x >= 0. *)
(***************************************************************************)
EXTENDS Integers, Sequences, FiniteSets, TLC

\* ------------------------------------------------------------------ bounds
MaxFoods == 2

MaxNutrients == 2

\* the tolerance 1e-6 of lines 71 and 90, in ticks
Tol == 1

\* ------------------------------------------------------------------- texts
SP == " "

RECURSIVE LStrip(_)
LStrip(t) == IF t # <<>> /\ Head(t) = SP THEN LStrip(Tail(t)) ELSE t

RECURSIVE RStrip(_)
RStrip(t) == IF t # <<>> /\ t[Len(t)] = SP THEN RStrip(SubSeq(t, 1, Len(t) - 1)) ELSE t

\* str.strip() of one header
Strip(t) == RStrip(LStrip(t))

\* Index.str.strip(): every header trimmed, order kept
StripAll(cols) == [i \in 1..Len(cols) |-> Strip(cols[i])]

T(w) == <<w>>

Num(v) == [k |-> "num", n |-> v, s |-> <<>>]

NaN == [k |-> "nan", n |-> 0, s |-> <<>>]

Str(t) == [k |-> "str", n |-> 0, s |-> t]

\* ------------------------------------------------------ tables (DataFrame)
SemTabela == [columns |-> <<>>, rows |-> <<>>]

HasCol(df, name) == \E i \in 1..Len(df.columns) : df.columns[i] = name

\* position of the column labelled name, 0 when there is none
ColIndex(df, name) ==
    IF HasCol(df, name)
    THEN CHOOSE i \in 1..Len(df.columns) :
            /\ df.columns[i] = name
            /\ \A j \in 1..(i - 1) : df.columns[j] # name
    ELSE 0

\* the cell of row r under the column labelled name
Celula(df, r, name) ==
    IF HasCol(df, name) THEN df.rows[r][ColIndex(df, name)] ELSE NaN

\* df[name].tolist() / .to_numpy(): the cells of one column, in row order
Coluna(df, name) == [r \in 1..Len(df.rows) |-> Celula(df, r, name)]

\* Index.drop(labels): the headers that are not among the labels, order kept
RECURSIVE DropCols(_, _)
DropCols(cols, labels) ==
    IF cols = <<>> THEN <<>>
    ELSE IF Head(cols) \in labels THEN DropCols(Tail(cols), labels)
         ELSE <<Head(cols)>> \o DropCols(Tail(cols), labels)

colunas_chave == <<T("ingrediente"), T("quantidade")>>

\* ------------------------------------------------------------- exceptions
SemExcecao == [tipo |-> "", faltante |-> <<>>, colunas |-> <<>>]

Erro(tipo) == [SemExcecao EXCEPT !.tipo = tipo]

ErroColuna(col, cols) == [tipo |-> "KeyError", faltante |-> col, colunas |-> cols]

\* ---------------------------------------------------------------- messages
SemMsg == [kind |-> "", custo |-> 0, compras |-> <<>>, auditoria |-> <<>>,
           status |-> 0, message |-> "", exc |-> SemExcecao]

SemModelo == [c |-> <<>>, A_ub |-> <<>>, b_ub |-> <<>>]

SemNomes == [nutrientes |-> <<>>, alimentos |-> <<>>]

SemResultado == [success |-> FALSE, status |-> 0, x |-> <<>>, fun |-> 0, message |-> ""]

\* ------------------------------------------------------- input scenarios
\* The text-valued columns and the numeric columns a well-formed food table
\* has (spec section 6): identifier, purchase unit, price, one per nutrient.
Base == <<T("ingrediente"), T("quantidade"), T("preco"), T("X"), T("Y")>>

NutCols == <<T("nutrientes"), T("minimo")>>

\* the subsequence of seq at the positions in mask
RECURSIVE Pick(_, _, _)
Pick(seq, mask, i) ==
    IF i > Len(seq) THEN <<>>
    ELSE (IF i \in mask THEN <<seq[i]>> ELSE <<>>) \o Pick(seq, mask, i + 1)

\* header i written with incidental whitespace: "lead" before, "both" around
Padded(cols, i, style) ==
    [j \in 1..Len(cols) |->
        IF j # i THEN cols[j]
        ELSE IF style = "lead" THEN <<SP>> \o cols[j] ELSE <<SP>> \o cols[j] \o <<SP>>]

Arquivo(enc, cols, rows) == [enc |-> enc, columns |-> cols, rows |-> rows]

\* a food file: the columns of Base at the positions in mask, column pad padded
ArqAlimentos(enc, mask, pad, style, fullRows) ==
    Arquivo(enc, Pick(Padded(Base, pad, style), mask, 1),
            [r \in 1..Len(fullRows) |-> Pick(fullRows[r], mask, 1)])

Todas == 1..Len(Base)

LinhaAlimento(nome, unidade, preco, x, y) == <<nome, unidade, preco, x, y>>

NomesAlimentos == <<T("Arroz"), T("Feijao"), T("Milho"), T("Leite")>>

NomeDe(j) == NomesAlimentos[((j - 1) % Len(NomesAlimentos)) + 1]

AlimentosBase ==
    << LinhaAlimento(Str(T("Arroz")), Str(T("kg")), Num(2), Num(1), Num(0)),
       LinhaAlimento(Str(T("Feijao")), Str(T("saco")), Num(1), Num(0), Num(1)) >>

NutrientesBase == << <<Str(T("Y")), Num(0)>>, <<Str(T("X")), Num(3)>> >>

ArqAlimentosBase == ArqAlimentos("utf-8", Todas, 0, "lead", AlimentosBase)

ArqNutrientesBase == Arquivo("utf-8", NutCols, NutrientesBase)

Cenario(en, ea, fn, fa) == [en |-> en, ea |-> ea, fn |-> fn, fa |-> fa]

Encodings == {"utf-8", "latin1"}

\* which sources exist and how they are encoded
CenariosFonte ==
    { Cenario(en, ea, [ArqNutrientesBase EXCEPT !.enc = encN],
                      [ArqAlimentosBase EXCEPT !.enc = encA]) :
        en \in BOOLEAN, ea \in BOOLEAN, encN \in Encodings, encA \in Encodings }

\* which columns the food table has, and which header carries whitespace
CenariosCabecalho ==
    { Cenario(TRUE, TRUE, ArqNutrientesBase,
              ArqAlimentos("utf-8", mask, pad, style, AlimentosBase)) :
        mask \in SUBSET Todas, pad \in 0..Len(Base), style \in {"lead", "both"} }

\* what the cells of a one-row food table hold
CelulasNumericas == {Num(1), NaN, Str(T("abc"))}

CenariosCelula ==
    { Cenario(TRUE, TRUE, ArqNutrientesBase,
              ArqAlimentos("utf-8", Todas, 0, "lead",
                  << LinhaAlimento(nome, Str(T("kg")), p, x, y) >>)) :
        nome \in {Str(T("Arroz")), NaN}, p \in CelulasNumericas,
        x \in CelulasNumericas, y \in CelulasNumericas }

\* prices, contents, minimums and quantities, in ticks
Precos == {1, 2}

Teores == {0, 1}

Minimos == {0, Tol + 2}

Quantidades == {0, Tol, Tol + 1}

\* food tables of up to MaxFoods rows with distinct names and any numbers
LinhasNumericas(j) ==
    { LinhaAlimento(Str(NomeDe(j)), Str(T("kg")), Num(p), Num(x), Num(y)) :
        p \in Precos, x \in Teores, y \in Teores }

TabelasNumericas ==
    UNION { { rows \in [1..m -> UNION {LinhasNumericas(j) : j \in 1..m}] :
                \A j \in 1..m : rows[j] \in LinhasNumericas(j) } : m \in 1..MaxFoods }

CenariosNumericos ==
    { Cenario(TRUE, TRUE, Arquivo("utf-8", NutCols, nut),
              ArqAlimentos("utf-8", Todas, 0, "lead", rows)) :
        nut \in {NutrientesBase, << <<Str(T("X")), Num(Tol + 2)>> >>},
        rows \in TabelasNumericas }

\* food tables whose names may repeat or be empty, with either unit label
Identidades ==
    { <<nome, un>> : nome \in {Str(T("Arroz")), Str(T("Feijao")), NaN},
                     un \in {Str(T("kg")), Str(T("saco"))} }

TabelasIdentidade ==
    UNION { { [j \in 1..m |-> LinhaAlimento(ids[j][1], ids[j][2], Num(1), Num(1), Num(1))] :
                ids \in [1..m -> Identidades] } : m \in 1..MaxFoods }

CenariosIdentidade ==
    { Cenario(TRUE, TRUE, ArqNutrientesBase,
              ArqAlimentos("utf-8", Todas, 0, "lead", rows)) :
        rows \in TabelasIdentidade }

\* nutrient tables of up to MaxNutrients rows; Z is no column of the food
\* table, " X" is X with whitespace (nutrient names are never trimmed)
NomesNutrientes ==
    {Str(T("X")), Str(T("Y")), Str(T("Z")), Str(<<SP, "X">>), Str(T("quantidade")), NaN}

CelulasMinimo == {Num(v) : v \in Minimos} \cup {NaN, Str(T("abc"))}

TabelasNutrientes ==
    UNION { [1..n -> {<<nome, mn>> : nome \in NomesNutrientes, mn \in CelulasMinimo}] :
            n \in 1..MaxNutrients }

CabecalhosNutrientes ==
    { NutCols, <<T("nutrientes")>>, <<T("minimo")>>, <<T("nutrientes"), <<SP, "minimo">>>> }

CenariosNutrientes ==
    { Cenario(TRUE, TRUE, Arquivo("utf-8", NutCols, nut), ArqAlimentosBase) :
        nut \in TabelasNutrientes }
    \cup
    { Cenario(TRUE, TRUE,
              Arquivo("utf-8", cols,
                      [r \in 1..Len(NutrientesBase) |->
                          Pick(NutrientesBase[r],
                               {i \in 1..2 : \E c \in 1..Len(cols) : Strip(cols[c]) = NutCols[i]}, 1)]),
              ArqAlimentosBase) :
        cols \in CabecalhosNutrientes }

Cenarios ==
    CenariosFonte \cup CenariosCabecalho \cup CenariosCelula \cup CenariosNumericos
        \cup CenariosIdentidade \cup CenariosNutrientes

\* ------------------------------------------------------------------- state
VARIABLES
    existe_nutrientes,  \* os.path.exists(nome_nutrientes)
    existe_alimentos,   \* os.path.exists(nome_alimentos)
    arq_nutrientes,     \* content of nutrientes.csv
    arq_alimentos,      \* content of ingrediente.csv
    pc,                 \* position of the run
    dados_nutrientes,   \* DataFrame of nutrients
    dados_alimentos,    \* DataFrame of foods
    nomes,              \* nomes_nutrientes and nomes_alimentos
    modelo,             \* c, A_ub, b_ub handed to linprog
    resultado,          \* what linprog returned
    excecao,            \* the exception in flight
    saida,              \* what was printed, in order
    chamadas            \* calls made to pandas / scipy, in order

vars == <<existe_nutrientes, existe_alimentos, arq_nutrientes, arq_alimentos, pc,
          dados_nutrientes, dados_alimentos, nomes, modelo, resultado, excecao, saida,
          chamadas>>

arquivos == <<existe_nutrientes, existe_alimentos, arq_nutrientes, arq_alimentos>>

Init ==
    /\ \E s \in Cenarios :
        /\ existe_nutrientes = s.en
        /\ existe_alimentos = s.ea
        /\ arq_nutrientes = s.fn
        /\ arq_alimentos = s.fa
    /\ pc = "main"
    /\ dados_nutrientes = SemTabela
    /\ dados_alimentos = SemTabela
    /\ nomes = SemNomes
    /\ modelo = SemModelo
    /\ resultado = SemResultado
    /\ excecao = SemExcecao
    /\ saida = <<>>
    /\ chamadas = <<>>

Raise(e) == pc' = "except" /\ excecao' = e

\* ------------------------------------------------ carregar_dados_csv
\* line 10-11: both sources must exist, checked before anything is read
\* variant: the error only when both sources are missing
FaltaArquivoAmbos(en, ea) == ~en /\ ~ea

FaltaArquivo(en, ea) == ~en \/ ~ea

VerificarArquivos ==
    /\ pc = "main"
    /\ IF FaltaArquivo(existe_nutrientes, existe_alimentos)
       THEN Raise(Erro("FileNotFoundError"))
       ELSE pc' = "ler_nutrientes" /\ UNCHANGED excecao
    /\ UNCHANGED <<arquivos, dados_nutrientes, dados_alimentos, nomes, modelo, resultado,
                   saida, chamadas>>

\* pd.read_csv(..., encoding=enc) of a file: the table, or a decode failure
Decodifica(arq, enc) == arq.enc = enc \/ enc = "latin1"

Tabela(arq) == [columns |-> arq.columns, rows |-> arq.rows]

\* line 14: the nutrient table is read as utf-8 only
LerNutrientes ==
    /\ pc = "ler_nutrientes"
    /\ chamadas' = Append(chamadas, "read_csv nutrientes utf-8")
    /\ IF Decodifica(arq_nutrientes, "utf-8")
       THEN /\ dados_nutrientes' = Tabela(arq_nutrientes)
            /\ pc' = "ler_alimentos"
            /\ UNCHANGED excecao
       ELSE /\ Raise(Erro("UnicodeDecodeError"))
            /\ UNCHANGED dados_nutrientes
    /\ UNCHANGED <<arquivos, dados_alimentos, nomes, modelo, resultado, saida>>

\* line 17-22: the food table is read as utf-8, and as latin1 when that fails
LerAlimentos ==
    /\ pc = "ler_alimentos"
    /\ IF Decodifica(arq_alimentos, "utf-8")
       THEN chamadas' = Append(chamadas, "read_csv alimentos utf-8")
       ELSE chamadas' = chamadas \o <<"read_csv alimentos utf-8", "read_csv alimentos latin1">>
    /\ dados_alimentos' = Tabela(arq_alimentos)
    /\ pc' = "limpar_colunas"
    /\ UNCHANGED <<arquivos, dados_nutrientes, nomes, modelo, resultado, excecao, saida>>

\* line 25: headers of the food table are trimmed
LimparColunas ==
    /\ pc = "limpar_colunas"
    /\ dados_alimentos' = [dados_alimentos EXCEPT !.columns = StripAll(@)]
    /\ pc' = "verificar_colunas"
    /\ UNCHANGED <<arquivos, dados_nutrientes, nomes, modelo, resultado, excecao, saida, chamadas>>

\* variant: only the first key column is looked for
PrimeiraAusenteSoIngrediente(df) == IF ~HasCol(df, colunas_chave[1]) THEN 1 ELSE 0

\* line 30-32: the first key column that is absent, 0 when both are present
PrimeiraAusente(df) ==
    IF \E i \in 1..Len(colunas_chave) : ~HasCol(df, colunas_chave[i])
    THEN CHOOSE i \in 1..Len(colunas_chave) :
            /\ ~HasCol(df, colunas_chave[i])
            /\ \A j \in 1..(i - 1) : HasCol(df, colunas_chave[j])
    ELSE 0

VerificarColunas ==
    /\ pc = "verificar_colunas"
    /\ LET i == PrimeiraAusente(dados_alimentos) IN
        IF i # 0
        THEN Raise(ErroColuna(colunas_chave[i], dados_alimentos.columns))
        ELSE pc' = "converter" /\ UNCHANGED excecao
    /\ UNCHANGED <<arquivos, dados_nutrientes, dados_alimentos, nomes, modelo, resultado,
                   saida, chamadas>>

\* pd.to_numeric(errors='raise') of one cell: a text that is no number raises
Conversivel(cell) == cell.k # "str"

colunas_numericas(df) ==
    DropCols(df.columns, {colunas_chave[i] : i \in 1..Len(colunas_chave)})

\* line 35-38: every column but the two key columns is converted, then both
\* tables are returned to the caller
ConverterNumericas ==
    /\ pc = "converter"
    /\ chamadas' = Append(chamadas, "to_numeric")
    /\ LET nums == colunas_numericas(dados_alimentos) IN
        IF \A i \in 1..Len(nums) : \A r \in 1..Len(dados_alimentos.rows) :
                Conversivel(Coluna(dados_alimentos, nums[i])[r])
        THEN pc' = "formular" /\ UNCHANGED excecao
        ELSE Raise(Erro("ValueError"))
    /\ UNCHANGED <<arquivos, dados_nutrientes, dados_alimentos, nomes, modelo, resultado, saida>>

\* ------------------------------------- resolver_problema_dieta_scipy
\* unary minus of one array element: a text has none (TypeError), NaN stays
Negavel(cell) == cell.k # "str"

Neg(cell) == IF cell.k = "num" THEN Num(0 - cell.n) ELSE cell

\* line 48: c, the price column in row order
Custos(df) == Coluna(df, T("preco"))

\* line 55: b_ub, the minimums negated, in row order
B_ub(dn) == [i \in 1..Len(dn.rows) |-> Neg(Celula(dn, i, T("minimo")))]

\* variant: the content matrix without the sign flip
A_ubSemSinal(df, nomes_nutrientes) ==
    [i \in 1..Len(nomes_nutrientes) |->
        [j \in 1..Len(df.rows) |-> Celula(df, j, nomes_nutrientes[i].s)]]

\* line 58: A_ub, one row per nutrient name and one column per food, negated
A_ub(df, nomes_nutrientes) ==
    [i \in 1..Len(nomes_nutrientes) |->
        [j \in 1..Len(df.rows) |-> Neg(Celula(df, j, nomes_nutrientes[i].s))]]

\* variant: a nutrient name that labels no column is not noticed
NutrientesAusentesIgnorados(df, nomes_nutrientes) == {}

\* the positions of the nutrient names that label no column of the food table
NutrientesAusentes(df, nomes_nutrientes) ==
    { i \in 1..Len(nomes_nutrientes) :
        nomes_nutrientes[i].k # "str" \/ ~HasCol(df, nomes_nutrientes[i].s) }

\* line 47-58: the model is derived from the two tables; every lookup by
\* column name raises KeyError when the column is absent
Formular ==
    /\ pc = "formular"
    /\ LET nn == Coluna(dados_nutrientes, T("nutrientes"))
           na == Coluna(dados_alimentos, T("ingrediente"))
           aus == NutrientesAusentes(dados_alimentos, nn)
           a == A_ub(dados_alimentos, nn)
           b == B_ub(dados_nutrientes)
       IN
        IF ~HasCol(dados_alimentos, T("preco"))
        THEN Raise(ErroColuna(T("preco"), <<>>)) /\ UNCHANGED <<nomes, modelo>>
        ELSE IF ~HasCol(dados_nutrientes, T("nutrientes"))
        THEN Raise(ErroColuna(T("nutrientes"), <<>>)) /\ UNCHANGED <<nomes, modelo>>
        ELSE IF ~HasCol(dados_nutrientes, T("minimo"))
        THEN Raise(ErroColuna(T("minimo"), <<>>)) /\ UNCHANGED <<nomes, modelo>>
        ELSE IF \E i \in 1..Len(b) : ~Negavel(b[i])
        THEN Raise(Erro("TypeError")) /\ UNCHANGED <<nomes, modelo>>
        ELSE IF aus # {}
        THEN /\ Raise(ErroColuna(nn[CHOOSE i \in aus : \A k \in aus : i <= k].s, <<>>))
             /\ UNCHANGED <<nomes, modelo>>
        ELSE IF \E i \in 1..Len(a) : \E j \in 1..Len(a[i]) : ~Negavel(a[i][j])
        THEN Raise(Erro("TypeError")) /\ UNCHANGED <<nomes, modelo>>
        ELSE /\ nomes' = [nutrientes |-> nn, alimentos |-> na]
             /\ modelo' = [c |-> Custos(dados_alimentos), A_ub |-> a, b_ub |-> b]
             /\ pc' = "linprog"
             /\ UNCHANGED excecao
    /\ UNCHANGED <<arquivos, dados_nutrientes, dados_alimentos, resultado, saida, chamadas>>

\* ---- scipy.optimize.linprog, a collaborator outside the repository
\* status codes of linprog: 0 optimal, 1 iteration limit, 2 infeasible,
\* 3 unbounded, 4 numerical difficulties
StatusSolver == 0..4

MensagemSolver(status) ==
    CASE status = 0 -> "Optimization terminated successfully."
      [] status = 1 -> "Iteration limit reached."
      [] status = 2 -> "The problem is infeasible."
      [] status = 3 -> "The problem is unbounded."
      [] OTHER -> "Numerical difficulties encountered."

Finito(cell) == cell.k = "num"

RECURSIVE Dot(_, _)
Dot(u, v) == IF u = <<>> THEN 0 ELSE Head(u) * Head(v) + Dot(Tail(u), Tail(v))

Valores(cells) == [i \in 1..Len(cells) |-> cells[i].n]

\* line 61: linprog rejects inputs that hold NaN (ValueError); otherwise it
\* returns some status, and with status 0 some x >= 0 of one entry per food
Linprog ==
    /\ pc = "linprog"
    /\ chamadas' = Append(chamadas, "linprog")
    /\ IF \/ \E j \in 1..Len(modelo.c) : ~Finito(modelo.c[j])
          \/ \E i \in 1..Len(modelo.b_ub) : ~Finito(modelo.b_ub[i])
          \/ \E i \in 1..Len(modelo.A_ub) : \E j \in 1..Len(modelo.A_ub[i]) :
                ~Finito(modelo.A_ub[i][j])
       THEN Raise(Erro("ValueError")) /\ UNCHANGED resultado
       ELSE /\ \E status \in StatusSolver :
                IF status = 0
                THEN \E x \in [1..Len(modelo.c) -> Quantidades] :
                        resultado' = [success |-> TRUE, status |-> 0, x |-> x,
                                      fun |-> Dot(Valores(modelo.c), x),
                                      message |-> MensagemSolver(0)]
                ELSE resultado' = [success |-> FALSE, status |-> status, x |-> <<>>,
                                   fun |-> 0, message |-> MensagemSolver(status)]
            /\ pc' = "exibir"
            /\ UNCHANGED excecao
    /\ UNCHANGED <<arquivos, dados_nutrientes, dados_alimentos, nomes, modelo, saida>>

\* ---- the report
\* variant: the threshold itself counts as purchased
CompradoInclusivo(valor) == valor >= Tol

\* line 71: a quantity is listed when it exceeds the tolerance
Comprado(valor) == valor > Tol

\* line 73: the rows whose name equals nome (NaN equals nothing, itself included)
LinhasDe(df, nome) ==
    { r \in 1..Len(df.rows) :
        LET cel == Celula(df, r, T("ingrediente")) IN cel.k # "nan" /\ cel = nome }

\* line 73: .iloc[0], the unit label of the first such row
Unidade(df, nome) ==
    LET rs == LinhasDe(df, nome) IN
    Celula(df, CHOOSE r \in rs : \A q \in rs : r <= q, T("quantidade"))

\* line 69-79: melhor_solucao, one entry per listed food in enumeration order;
\* i is the index of the enumeration
RECURSIVE MelhorSolucao(_, _, _, _)
MelhorSolucao(df, nomes_alimentos, x, i) ==
    IF i > Len(x) THEN <<>>
    ELSE (IF Comprado(x[i])
          THEN << [i |-> i, Ingrediente |-> nomes_alimentos[i], Quantidade |-> x[i],
                   Unidade |-> Unidade(df, nomes_alimentos[i])] >>
          ELSE <<>>)
         \o MelhorSolucao(df, nomes_alimentos, x, i + 1)

\* line 73: .iloc[0] of an empty selection raises IndexError
SemLinha(df, nomes_alimentos, x) ==
    \E i \in 1..Len(x) : Comprado(x[i]) /\ LinhasDe(df, nomes_alimentos[i]) = {}

\* variant: the totals taken from the negated matrix as it is
ConsumidoNegado(a, x) == [i \in 1..Len(a) |-> Dot([j \in 1..Len(a[i]) |-> a[i][j].n], x)]

\* line 85: consumido = (A_ub * -1) . x
Consumido(a, x) == [i \in 1..Len(a) |-> Dot([j \in 1..Len(a[i]) |-> a[i][j].n * (0 - 1)], x)]

\* line 86: minimo = b_ub * -1
Minimo(b) == [i \in 1..Len(b) |-> b[i].n * (0 - 1)]

\* variant: the comparison without the tolerance
AtendidoSemTolerancia(consumido, minimo) == IF consumido >= minimo THEN "OK" ELSE "FALHA"

\* line 90
Atendido(consumido, minimo) == IF consumido >= minimo - Tol THEN "OK" ELSE "FALHA"

\* line 89-91: one line per nutrient name, in order
Auditoria(nomes_nutrientes, consumido, minimo) ==
    [i \in 1..Len(nomes_nutrientes) |->
        [nome |-> nomes_nutrientes[i], consumido |-> consumido[i], minimo |-> minimo[i],
         atendido |-> Atendido(consumido[i], minimo[i])]]

Inviavel == 2

\* variant: the infeasibility message is tied to the wrong status code
MensagemFalhaTrocada(res) ==
    IF res.status = Inviavel + 1
    THEN [SemMsg EXCEPT !.kind = "inviavel"]
    ELSE [SemMsg EXCEPT !.kind = "sem_otimo", !.status = res.status, !.message = res.message]

\* line 96-99: what is printed when linprog did not succeed
MensagemFalha(res) ==
    IF res.status = Inviavel
    THEN [SemMsg EXCEPT !.kind = "inviavel"]
    ELSE [SemMsg EXCEPT !.kind = "sem_otimo", !.status = res.status, !.message = res.message]

\* line 64-99: the whole report is built and printed once, at line 93
Exibir ==
    /\ pc = "exibir"
    /\ IF resultado.success
       THEN IF SemLinha(dados_alimentos, nomes.alimentos, resultado.x)
            THEN Raise(Erro("IndexError")) /\ UNCHANGED saida
            ELSE /\ saida' = Append(saida,
                        [SemMsg EXCEPT
                            !.kind = "relatorio",
                            !.custo = resultado.fun,
                            !.compras = MelhorSolucao(dados_alimentos, nomes.alimentos,
                                                      resultado.x, 1),
                            !.auditoria = Auditoria(nomes.nutrientes,
                                                    Consumido(modelo.A_ub, resultado.x),
                                                    Minimo(modelo.b_ub))])
                 /\ pc' = "fim"
                 /\ UNCHANGED excecao
       ELSE /\ saida' = Append(saida, MensagemFalha(resultado))
            /\ pc' = "fim"
            /\ UNCHANGED excecao
    /\ UNCHANGED <<arquivos, dados_nutrientes, dados_alimentos, nomes, modelo, resultado,
                   chamadas>>

\* ---------------------------------------------------------------- __main__
\* variant: the handler prints the hint without the error
TratarExcecaoSemMensagem ==
    /\ pc = "except"
    /\ saida' = Append(saida, [SemMsg EXCEPT !.kind = "dica"])
    /\ pc' = "fim"
    /\ UNCHANGED <<arquivos, dados_nutrientes, dados_alimentos, nomes, modelo, resultado,
                   excecao, chamadas>>

\* line 106-108: the message of the exception, then the fixed hint
TratarExcecao ==
    /\ pc = "except"
    /\ saida' = saida \o << [SemMsg EXCEPT !.kind = "erro", !.exc = excecao],
                            [SemMsg EXCEPT !.kind = "dica"] >>
    /\ pc' = "fim"
    /\ UNCHANGED <<arquivos, dados_nutrientes, dados_alimentos, nomes, modelo, resultado,
                   excecao, chamadas>>

Next ==
    \/ VerificarArquivos
    \/ LerNutrientes
    \/ LerAlimentos
    \/ LimparColunas
    \/ VerificarColunas
    \/ ConverterNumericas
    \/ Formular
    \/ Linprog
    \/ Exibir
    \/ TratarExcecao

Spec == Init /\ [][Next]_vars

\* ============================================================== properties
\* What the two input files say, read off the files themselves.
ColunaDoArquivo(arq, name, aparar) ==
    CHOOSE k \in 1..Len(arq.columns) :
        (IF aparar THEN Strip(arq.columns[k]) ELSE arq.columns[k]) = name

TemColunaAparada(arq, name) == \E k \in 1..Len(arq.columns) : Strip(arq.columns[k]) = name

NumNutrientes == Len(arq_nutrientes.rows)

NumAlimentos == Len(arq_alimentos.rows)

NomeNutriente(i) == arq_nutrientes.rows[i][ColunaDoArquivo(arq_nutrientes, T("nutrientes"), FALSE)]

MinimoNutriente(i) == arq_nutrientes.rows[i][ColunaDoArquivo(arq_nutrientes, T("minimo"), FALSE)]

DoAlimento(j, name) == arq_alimentos.rows[j][ColunaDoArquivo(arq_alimentos, name, TRUE)]

Teor(i, j) == DoAlimento(j, NomeNutriente(i).s)

\* linprog was called with the model
Entregue == pc = "linprog" \/ (\E k \in 1..Len(chamadas) : chamadas[k] = "linprog")

\* the report of an optimal solution was printed
Relatado == pc = "fim" /\ Len(saida) = 1 /\ saida[1].kind = "relatorio"

SaidaNumerica ==
    \E k \in 1..Len(saida) :
        saida[k].kind = "relatorio" \/ saida[k].compras # <<>> \/ saida[k].auditoria # <<>>

\* C1: the model handed to linprog has c[j] = price of food j,
\* A_ub[i][j] = -(content of nutrient i in food j) and b_ub[i] = -(minimum of
\* nutrient i), with i and j in the order of the two input tables.
C1_ModeloFormulado ==
    Entregue =>
        /\ Len(modelo.c) = NumAlimentos
        /\ Len(modelo.b_ub) = NumNutrientes
        /\ Len(modelo.A_ub) = NumNutrientes
        /\ \A j \in 1..NumAlimentos : modelo.c[j] = DoAlimento(j, T("preco"))
        /\ \A i \in 1..NumNutrientes :
            /\ modelo.b_ub[i].k = MinimoNutriente(i).k
            /\ modelo.b_ub[i].n = 0 - MinimoNutriente(i).n
            /\ Len(modelo.A_ub[i]) = NumAlimentos
            /\ \A j \in 1..NumAlimentos :
                /\ modelo.A_ub[i][j].k = Teor(i, j).k
                /\ modelo.A_ub[i][j].n = 0 - Teor(i, j).n

C1_Witness ==
    /\ pc = "linprog"
    /\ NumNutrientes = 2 /\ NumAlimentos = 2
    /\ NomeNutriente(1) = Str(T("Y")) /\ NomeNutriente(2) = Str(T("X"))
    /\ modelo.c[1].n # modelo.c[2].n
    /\ modelo.A_ub[1][1].n # modelo.A_ub[2][1].n
    /\ modelo.A_ub[2][1].n # modelo.A_ub[2][2].n
    /\ modelo.b_ub[2].n < 0

\* some nutrient name of the nutrient table labels no column of the food table
NutrienteSemColuna ==
    /\ \E k \in 1..Len(arq_nutrientes.columns) : arq_nutrientes.columns[k] = T("nutrientes")
    /\ \E i \in 1..NumNutrientes :
        NomeNutriente(i).k # "str" \/ ~TemColunaAparada(arq_alimentos, NomeNutriente(i).s)

\* C2: when a nutrient name is no column of the food table, no model is
\* built (no coefficient stands in for the missing column), linprog is never
\* called, nothing but the error and the hint is printed.
C2_NutrienteAusente ==
    NutrienteSemColuna =>
        /\ ~Entregue
        /\ pc \notin {"linprog", "exibir"}
        /\ modelo = SemModelo
        /\ ~SaidaNumerica
        /\ pc = "fim" => /\ Len(saida) = 2
                         /\ saida[1].kind = "erro"
                         /\ saida[2].kind = "dica"

C2_Witness ==
    /\ NutrienteSemColuna
    /\ pc = "fim"
    /\ excecao = ErroColuna(T("Z"), <<>>)
    /\ dados_alimentos.rows # <<>>
    /\ saida[1].exc = excecao

\* linprog returned a status that is not 0
NaoOtimo ==
    /\ pc = "exibir" \/ (pc = "fim" /\ Entregue /\ excecao = SemExcecao)
    /\ resultado.status # 0

\* C3: after a non-optimal status exactly one message is printed, with no
\* cost, no quantities and no audit; it is the infeasibility message exactly
\* when the status is 2, and otherwise the generic message with the solver's
\* status and message.
C3_SemSolucao ==
    NaoOtimo =>
        /\ pc = "exibir" => saida = <<>>
        /\ pc = "fim" =>
            /\ Len(saida) = 1
            /\ ~SaidaNumerica
            /\ saida[1].custo = 0
            /\ saida[1].kind \in {"inviavel", "sem_otimo"}
            /\ saida[1].kind = "inviavel" <=> resultado.status = 2
            /\ saida[1].kind = "sem_otimo" =>
                /\ saida[1].status = resultado.status
                /\ saida[1].message = resultado.message

C3_Witness ==
    /\ NaoOtimo
    /\ pc = "fim"
    /\ resultado.status = 3
    /\ saida[1].kind = "sem_otimo"
    /\ saida[1].message = "The problem is unbounded."

\* C4: the purchased list of a report holds food index j exactly when
\* x[j] > 1e-6, in increasing index order, each index once, with x[j] as its
\* quantity.
C4_ListaDeCompras ==
    Relatado =>
        LET L == saida[1].compras
            x == resultado.x
        IN  /\ Len(x) = NumAlimentos
            /\ \A j \in 1..Len(x) : (\E k \in 1..Len(L) : L[k].i = j) <=> x[j] > Tol
            /\ \A k \in 1..Len(L) : L[k].i \in 1..Len(x) /\ L[k].Quantidade = x[L[k].i]
            /\ \A k \in 1..Len(L) : \A l \in 1..Len(L) : k < l => L[k].i < L[l].i

C4_Witness ==
    /\ Relatado
    /\ NumAlimentos = 2
    /\ resultado.x[1] = Tol
    /\ resultado.x[2] = Tol + 1
    /\ Len(saida[1].compras) = 1
    /\ saida[1].compras[1].i = 2

RECURSIVE Soma(_, _)
Soma(f, j) == IF j = 0 THEN 0 ELSE f[j] + Soma(f, j - 1)

\* the total of nutrient i supplied by the quantities x, from the food file
Alcancado(i, x) == Soma([j \in 1..NumAlimentos |-> Teor(i, j).n * x[j]], NumAlimentos)

\* C5: a report has one audit line per nutrient, in the order of the nutrient
\* table, tagged OK exactly when achieved >= minimum - 1e-6 and FALHA otherwise.
C5_Auditoria ==
    Relatado =>
        LET A == saida[1].auditoria IN
        /\ Len(A) = NumNutrientes
        /\ \A i \in 1..NumNutrientes :
            /\ A[i].nome = NomeNutriente(i)
            /\ A[i].atendido \in {"OK", "FALHA"}
            /\ A[i].atendido = "OK" <=>
                    Alcancado(i, resultado.x) >= MinimoNutriente(i).n - Tol

C5_Witness ==
    /\ Relatado
    /\ NumNutrientes = 2
    /\ LET A == saida[1].auditoria IN
        /\ A[1].consumido = A[1].minimo - Tol
        /\ A[1].atendido = "OK"
        /\ A[2].consumido = A[2].minimo - Tol - 1
        /\ A[2].atendido = "FALHA"

\* C6: the achieved total reported for nutrient i is the sum of the original
\* contents times x, which is -(A_ub . x)[i], and the minimum reported is the
\* original minimum, which is -b_ub[i].
C6_SinalDesfeito ==
    Relatado =>
        \A i \in 1..NumNutrientes :
            LET linha == saida[1].auditoria[i] IN
            /\ linha.consumido = Alcancado(i, resultado.x)
            /\ linha.consumido = 0 - Dot(Valores(modelo.A_ub[i]), resultado.x)
            /\ linha.minimo = MinimoNutriente(i).n
            /\ linha.minimo = 0 - modelo.b_ub[i].n

C6_Witness ==
    /\ Relatado
    /\ \E i \in 1..NumNutrientes :
        /\ saida[1].auditoria[i].consumido > 0
        /\ saida[1].auditoria[i].minimo > 0
        /\ modelo.b_ub[i].n < 0
        /\ \E j \in 1..NumAlimentos : modelo.A_ub[i][j].n < 0 /\ resultado.x[j] > 0

\* C7: when a source is missing, no table is ever read or parsed and the run
\* ends with the source-not-found error.
C7_FonteAusente ==
    (~existe_nutrientes \/ ~existe_alimentos) =>
        /\ chamadas = <<>>
        /\ dados_nutrientes = SemTabela
        /\ dados_alimentos = SemTabela
        /\ pc \in {"main", "except", "fim"}
        /\ pc # "main" => excecao = Erro("FileNotFoundError")
        /\ pc = "fim" => /\ Len(saida) = 2
                         /\ saida[1].kind = "erro"
                         /\ saida[1].exc = Erro("FileNotFoundError")

C7_Witness ==
    /\ existe_nutrientes
    /\ ~existe_alimentos
    /\ pc = "fim"
    /\ saida[1].exc.tipo = "FileNotFoundError"

\* the food table, once its headers are trimmed, lacks a key column
FaltaColunaChave ==
    \E i \in 1..Len(colunas_chave) : ~TemColunaAparada(arq_alimentos, colunas_chave[i])

Verificado ==
    /\ \E k \in 1..Len(chamadas) : chamadas[k] = "read_csv alimentos utf-8"
    /\ pc \notin {"limpar_colunas", "verificar_colunas"}

\* C8: when the trimmed food table lacks `ingrediente` or `quantidade`, the
\* load ends in a KeyError that names an absent key column and lists the
\* trimmed headers of the file; no conversion is made and nothing reaches the
\* formulation.
C8_ColunaChaveAusente ==
    FaltaColunaChave =>
        /\ pc \notin {"converter", "formular", "linprog", "exibir"}
        /\ \A k \in 1..Len(chamadas) : chamadas[k] \notin {"to_numeric", "linprog"}
        /\ nomes = SemNomes /\ modelo = SemModelo
        /\ Verificado =>
            /\ pc \in {"except", "fim"}
            /\ excecao.tipo = "KeyError"
            /\ \E i \in 1..Len(colunas_chave) : excecao.faltante = colunas_chave[i]
            /\ ~TemColunaAparada(arq_alimentos, excecao.faltante)
            /\ Len(excecao.colunas) = Len(arq_alimentos.columns)
            /\ \A k \in 1..Len(arq_alimentos.columns) :
                    excecao.colunas[k] = Strip(arq_alimentos.columns[k])

C8_Witness ==
    /\ pc = "fim"
    /\ excecao.tipo = "KeyError"
    /\ excecao.faltante = T("quantidade")
    /\ excecao.colunas # arq_alimentos.columns
    /\ excecao.colunas # <<>>
    /\ saida[1].exc = excecao

\* C9: once an error is raised no stage runs any more: the only step left
\* prints the error and then the hint, and no cost, quantity or audit line is
\* ever printed in that run.
C9_Inv ==
    excecao # SemExcecao =>
        /\ pc \in {"except", "fim"}
        /\ ~SaidaNumerica
        /\ pc = "except" => saida = <<>>
        /\ pc = "fim" => /\ Len(saida) = 2
                         /\ saida[1].kind = "erro" /\ saida[1].exc = excecao
                         /\ saida[2].kind = "dica"
        /\ modelo = SemModelo => ~Entregue
        /\ resultado.success = FALSE \/ excecao.tipo = "IndexError"

C9_Passo ==
    excecao # SemExcecao =>
        /\ pc = "except" /\ pc' = "fim"
        /\ UNCHANGED <<chamadas, dados_nutrientes, dados_alimentos, nomes, modelo,
                       resultado, excecao>>

C9_ErroEncerra == [](C9_Inv) /\ [][C9_Passo]_vars

C9_Witness ==
    /\ pc = "fim"
    /\ excecao = Erro("ValueError")
    /\ Entregue
    /\ resultado = SemResultado
    /\ Len(saida) = 2

\* C10: every entry of the purchased list carries the name and the unit label
\* of the food row it was produced for.
C10_UnidadeDaLinha ==
    Relatado =>
        \A k \in 1..Len(saida[1].compras) :
            LET e == saida[1].compras[k] IN
            /\ e.Ingrediente = DoAlimento(e.i, T("ingrediente"))
            /\ e.Unidade = DoAlimento(e.i, T("quantidade"))

====
